---- MODULE Spec2Model ----
(***************************************************************************)
(* Model of app_sidebar_MG.py: the locale-aware number parser              *)
(* (parse_br_number), the table reshaper (preparar_df), the metrics        *)
(* builder (montar_base) and the top-to-bottom script run (main).          *)
(*                                                                         *)
(* Text is a sequence of one-character strings. Characters outside ASCII   *)
(* are written by name: "nbsp" (U+00A0), "emdash" (U+2014), "Delta"        *)
(* (U+0394), "cedil" / "CEDIL" (c with cedilla, lower / upper case).       *)
(*                                                                         *)
(* A float is [k, n, d]: k = "nan"; k = "inf" with n = 1 or -1; or         *)
(* k = "num" for the exact fraction n/d in lowest terms, d > 0. Binary     *)
(* rounding of doubles and the sign of zero are not represented.           *)
(***************************************************************************)
EXTENDS Integers, Sequences, FiniteSets, TLC

VARIABLES
    pc,        \* position of the run being modelled
    x,         \* parse_br_number: the raw cell passed in (line 37)
    s,         \* parse_br_number: local s just before pd.to_numeric (lines 40-50)
    ret,       \* parse_br_number: the returned value (line 51)
    df,        \* the sheet handed to preparar_df, a copy of the loaded one (line 156)
    df_long,   \* preparar_df's result (line 157)
    regional,  \* the group selected (line 160)
    base,      \* montar_base's result (line 167)
    exists_,   \* whether a file is at EXCEL_PATH (line 133)
    abas,      \* the workbook on disk: the sheets in order, each with its name (line 137)
    session,   \* st.session_state: the widgets' values, kept between runs (lines 150, 163)
    ui         \* what the page shows after the run (lines 134, 169)

vars == <<pc, x, s, ret, df, df_long, regional, base, exists_, abas, session, ui>>

(* ------------------------------ bounds --------------------------------- *)
MaxLen == 4

(* ------------------------------ floats --------------------------------- *)
Abs(i) == IF i < 0 THEN -i ELSE i

RECURSIVE GCD(_, _)
GCD(a, b) == IF b = 0 THEN a ELSE GCD(b, a % b)

NaN == [k |-> "nan", n |-> 0, d |-> 1]
PosInf == [k |-> "inf", n |-> 1, d |-> 1]
NegInf == [k |-> "inf", n |-> -1, d |-> 1]

\* the float n/d, d # 0
Frac(n, d) ==
    LET g == GCD(Abs(n), Abs(d))
        sg == IF d < 0 THEN -1 ELSE 1
    IN [k |-> "num", n |-> sg * (n \div g), d |-> sg * (d \div g)]

RECURSIVE Pow10(_)
Pow10(e) == IF e = 0 THEN 1 ELSE 10 * Pow10(e - 1)

\* the decimal literal with digits m and e places after the point
Dec(m, e) == Frac(m, Pow10(e))

isna(v) == v.k = "nan"

\* float subtraction (IEEE: nan propagates, inf - inf is nan)
FSub(a, b) ==
    IF isna(a) \/ isna(b) THEN NaN
    ELSE IF a.k = "inf" /\ b.k = "inf" THEN (IF a.n = b.n THEN NaN ELSE a)
    ELSE IF a.k = "inf" THEN a
    ELSE IF b.k = "inf" THEN (IF b.n = 1 THEN NegInf ELSE PosInf)
    ELSE Frac(a.n * b.d - b.n * a.d, a.d * b.d)

\* float division as numpy does it: x/0 is +-inf, 0/0 is nan, nothing raises
FDiv(a, b) ==
    IF isna(a) \/ isna(b) THEN NaN
    ELSE IF a.k = "inf" /\ b.k = "inf" THEN NaN
    ELSE IF a.k = "inf" THEN (IF b.n < 0 THEN (IF a.n = 1 THEN NegInf ELSE PosInf) ELSE a)
    ELSE IF b.k = "inf" THEN Frac(0, 1)
    ELSE IF b.n = 0 THEN (IF a.n = 0 THEN NaN ELSE IF a.n > 0 THEN PosInf ELSE NegInf)
    ELSE Frac(a.n * b.d, a.d * b.n)

\* float multiplication by a positive integer constant
FMulInt(a, c) == IF a.k = "num" THEN Frac(a.n * c, a.d) ELSE a

(* ------------------------------- text ---------------------------------- *)
Digits == <<"0", "1", "2", "3", "4", "5", "6", "7", "8", "9">>
DigitSet == {Digits[i] : i \in 1..10}
DigitVal(c) == (CHOOSE i \in 1..10 : Digits[i] = c) - 1
Whitespace == {" ", "nbsp"}

Contains(t, c) == \E i \in 1..Len(t) : t[i] = c

\* str.rfind for one character: the last 0-based index, -1 when absent
rfind(t, c) ==
    IF Contains(t, c)
    THEN (CHOOSE i \in 1..Len(t) : t[i] = c /\ \A j \in (i+1)..Len(t) : t[j] # c) - 1
    ELSE -1

\* str.replace(c, r) for a one-character c and a replacement text r
RECURSIVE replace1(_, _, _)
replace1(t, c, r) ==
    IF t = <<>> THEN <<>>
    ELSE (IF Head(t) = c THEN r ELSE <<Head(t)>>) \o replace1(Tail(t), c, r)

\* str.replace(p, "") for a two-character p: leftmost, non-overlapping, one pass
RECURSIVE remove2(_, _)
remove2(t, p) ==
    IF Len(t) < 2 THEN t
    ELSE IF t[1] = p[1] /\ t[2] = p[2] THEN remove2(SubSeq(t, 3, Len(t)), p)
    ELSE <<Head(t)>> \o remove2(Tail(t), p)

\* str.strip(): whitespace off both ends
RECURSIVE lstrip(_)
lstrip(t) == IF t # <<>> /\ Head(t) \in Whitespace THEN lstrip(Tail(t)) ELSE t

RECURSIVE rstrip(_)
rstrip(t) ==
    IF t # <<>> /\ t[Len(t)] \in Whitespace THEN rstrip(SubSeq(t, 1, Len(t) - 1)) ELSE t

strip(t) == rstrip(lstrip(t))

(* ------------------------- parse_br_number ----------------------------- *)
\* raw spreadsheet cells
NoneCell == [t |-> "none", v |-> NaN, s |-> <<>>]
NumCell(v) == [t |-> "num", v |-> v, s |-> <<>>]
StrCell(t) == [t |-> "str", v |-> NaN, s |-> t]

RECURSIVE DigitsValue(_)
DigitsValue(t) ==
    IF t = <<>> THEN 0 ELSE 10 * DigitsValue(SubSeq(t, 1, Len(t) - 1)) + DigitVal(t[Len(t)])

\* the float a text spells: optional sign, digits with at most one ".", and at
\* least one digit ("5." and ".5" are numbers, "." is not)
IsNumberText(t) ==
    LET b == IF t # <<>> /\ Head(t) \in {"+", "-"} THEN Tail(t) ELSE t
    IN /\ \A i \in 1..Len(b) : b[i] \in DigitSet \cup {"."}
       /\ Cardinality({i \in 1..Len(b) : b[i] = "."}) <= 1
       /\ \E i \in 1..Len(b) : b[i] \in DigitSet

NumberOfText(t) ==
    LET neg == t # <<>> /\ Head(t) = "-"
        b == IF t # <<>> /\ Head(t) \in {"+", "-"} THEN Tail(t) ELSE t
        p == rfind(b, ".")
        places == IF p = -1 THEN 0 ELSE Len(b) - 1 - p
        m == DigitsValue(SelectSeq(b, LAMBDA c : c # "."))
    IN Dec(IF neg THEN -m ELSE m, places)

\* pd.to_numeric with the default errors="raise": a text that is no number
\* raises instead of giving nan
to_numeric_raise(t) ==
    IF IsNumberText(t) THEN NumberOfText(t) ELSE [k |-> "raise", n |-> 0, d |-> 1]

\* pd.to_numeric(t, errors="coerce") on a scalar text: the empty text and any
\* text that is no number give nan
to_numeric(t) == IF IsNumberText(t) THEN NumberOfText(t) ELSE NaN

\* lines 40-41: whitespace and the "R$" and "%" markers taken out
clean(t) ==
    LET a == replace1(replace1(strip(t), "nbsp", <<>>), " ", <<>>)
    IN replace1(remove2(a, <<"R", "$">>), "%", <<>>)

\* the separators read the Brazilian way whatever their order: "." groups
\* thousands, "," is the decimal separator
canonical_br(t) == replace1(replace1(t, ".", <<>>), ",", <<".">>)

\* a lone "." read as thousands grouping: without "," every "." is removed
canonical_grouping(t) ==
    IF Contains(t, ",") /\ Contains(t, ".")
    THEN IF rfind(t, ",") > rfind(t, ".")
         THEN replace1(replace1(t, ".", <<>>), ",", <<".">>)
         ELSE replace1(t, ",", <<>>)
    ELSE IF Contains(t, ",")
         THEN replace1(replace1(t, ".", <<>>), ",", <<".">>)
         ELSE replace1(t, ".", <<>>)

\* lines 42-50: the separators made canonical
canonical(t) ==
    IF Contains(t, ",") /\ Contains(t, ".")
    THEN IF rfind(t, ",") > rfind(t, ".")
         THEN replace1(replace1(t, ".", <<>>), ",", <<".">>)
         ELSE replace1(t, ",", <<>>)
    ELSE IF Contains(t, ",")
         THEN replace1(replace1(t, ".", <<>>), ",", <<".">>)
         ELSE replace1(t, ",", <<>>)

\* the value of local s when line 51 is reached (no s on the early returns)
parse_s(c) == IF c.t = "str" THEN canonical(clean(c.s)) ELSE <<>>

parse_br_number(c) ==
    IF c.t = "none" \/ (c.t = "num" /\ isna(c.v)) THEN NaN
    ELSE IF c.t = "num" THEN c.v
    ELSE to_numeric(parse_s(c))

(* ----------------------------- preparar_df ----------------------------- *)
\* A sheet is [columns, rows]: columns[1] names the first column, the rest
\* are the category columns; a row is [label, cells], label the text in the
\* first column and cells one raw cell per category column.
Sheet(cols, rows) == [t |-> "sheet", columns |-> cols, rows |-> rows]

Regional == <<"R", "e", "g", "i", "o", "n", "a", "l">>

\* str.lower() on the letters that occur in labels
Upper == <<"P", "R", "E", "S", "N", "CEDIL", "A", "T", "U", "L", "O">>
Lower == <<"p", "r", "e", "s", "n", "cedil", "a", "t", "u", "l", "o">>
lower1(c) ==
    IF \E i \in 1..Len(Upper) : Upper[i] = c
    THEN Lower[CHOOSE i \in 1..Len(Upper) : Upper[i] = c]
    ELSE c
lower(t) == [i \in 1..Len(t) |-> lower1(t[i])]

\* Python's "p in t" on texts
IsSubstring(p, t) ==
    \E i \in 0..(Len(t) - Len(p)) : SubSeq(t, i + 1, i + Len(p)) = p

presen == <<"p", "r", "e", "s", "e", "n">>

\* line 71: the dtype pandas gave the column when the sheet was read; slicing
\* the last row off keeps it
is_numeric_dtype(sheet, j) ==
    \A i \in 1..Len(sheet.rows) : sheet.rows[i].cells[j].t \in {"num", "none"}

\* the float held by a cell of a numeric column
float_of(c) == IF c.t = "num" THEN c.v ELSE NaN

\* the marker looked for in the label as written, without str.lower()
kept_rows_case(sheet) ==
    LET n == Len(sheet.rows)
    IN IF IsSubstring(presen, sheet.rows[n].label)
       THEN SubSeq(sheet.rows, 1, n - 1)
       ELSE sheet.rows

\* lines 63-66: the rows kept
kept_rows(sheet) ==
    LET n == Len(sheet.rows)
    IN IF IsSubstring(presen, lower(sheet.rows[n].label))
       THEN SubSeq(sheet.rows, 1, n - 1)
       ELSE sheet.rows

\* lines 69-72: the value of the cell of row r in category column j
nota(sheet, r, j) ==
    IF is_numeric_dtype(sheet, j) THEN float_of(r.cells[j]) ELSE parse_br_number(r.cells[j])

\* lines 75-76: DataFrame.melt, one row per (row, category column), column by
\* column
melt(sheet, rows, aval_cols) ==
    LET m == Len(rows)
    IN [i \in 1..(m * Len(aval_cols)) |->
            LET j == ((i - 1) \div m) + 1
                r == rows[((i - 1) % m) + 1]
            IN [Regional |-> r.label, Avaliacao |-> aval_cols[j],
                Nota |-> nota(sheet, r, j)]]

Raise(e) == [t |-> "raise", exc |-> e]

\* lines 60-61: the name of the first column after the rename
id_column(sheet) == IF sheet.columns[1] # Regional THEN Regional ELSE sheet.columns[1]

preparar_df(sheet) ==
    IF Len(sheet.rows) = 0 THEN Raise("IndexError")     \* df.iloc[-1, 0], line 64
    ELSE LET aval_cols == Tail(sheet.columns)
         IN [t |-> "frame", id |-> id_column(sheet),
             rows |-> melt(sheet, kept_rows(sheet), aval_cols),
             categories |-> aval_cols]

\* the cell a float is stored as
cell_of(v) == IF isna(v) THEN NoneCell ELSE NumCell(v)

\* the caller's frame after the call: rename (line 61) and the slice copy
\* (line 66) make a new frame, otherwise line 72 assigns into the caller's
preparar_df_arg(sheet) ==
    IF Len(sheet.rows) = 0 \/ sheet.columns[1] # Regional \/ kept_rows(sheet) # sheet.rows
    THEN sheet
    ELSE [sheet EXCEPT !.rows =
            [i \in 1..Len(sheet.rows) |->
                [label |-> sheet.rows[i].label,
                 cells |-> [j \in 1..Len(sheet.rows[i].cells) |->
                                cell_of(nota(sheet, sheet.rows[i], j))]]]]

(* ----------------------------- montar_base ----------------------------- *)
\* code point order of the characters of labels
CodePoints ==
    <<" ", "0", "1", "2", "3", "4", "5", "6", "7", "8", "9", ":", "A", "E", "L", "N", "O",
      "P", "R", "S", "T", "U", "a", "d", "e", "g", "i", "l", "m", "n", "o", "r", "s", "t",
      "u", "CEDIL", "cedil">>
ord(c) == CHOOSE i \in 1..Len(CodePoints) : CodePoints[i] = c

\* a < b on str
RECURSIVE TextLess(_, _)
TextLess(a, b) ==
    IF b = <<>> THEN FALSE
    ELSE IF a = <<>> THEN TRUE
    ELSE IF Head(a) # Head(b) THEN ord(Head(a)) < ord(Head(b))
    ELSE TextLess(Tail(a), Tail(b))

\* the categories taken as plain text and sorted: the place of c among them
cat_code_lexical(categories, c) ==
    1 + Cardinality({i \in 1..Len(categories) : TextLess(categories[i], c)})

\* the code of a category of an ordered Categorical: its place in categories
cat_code(categories, c) == CHOOSE i \in 1..Len(categories) : categories[i] = c

RECURSIVE IntText(_)
IntText(i) == IF i < 10 THEN <<Digits[i + 1]>> ELSE IntText(i \div 10) \o <<Digits[(i % 10) + 1]>>

\* n/d, both positive, rounded to the nearest integer, ties to even. format
\* rounds the double, which at a decimal tie may lie on either side of the
\* fraction; the cells used as input have no such tie
RoundHalfEven(n, d) ==
    LET q == n \div d
        r == n % d
    IN IF 2 * r > d \/ (2 * r = d /\ q % 2 = 1) THEN q + 1 ELSE q

\* format(v, ".2f") and, with plus, format(v, "+.2f"), v not nan
fmt2f(v, plus) ==
    LET sign == IF v.n < 0 THEN <<"-">> ELSE IF plus THEN <<"+">> ELSE <<>>
    IN IF v.k = "inf" THEN sign \o <<"i", "n", "f">>
       ELSE LET q == RoundHalfEven(Abs(v.n) * 100, v.d)
            IN sign \o IntText(q \div 100) \o <<".">>
                    \o <<Digits[((q \div 10) % 10) + 1], Digits[(q % 10) + 1]>>

fsgn(v) == IF isna(v) THEN <<"emdash">> ELSE fmt2f(v, TRUE)
fnum(v) == IF isna(v) THEN <<"emdash">> ELSE fmt2f(v, FALSE)

Nota_ == <<"N", "o", "t", "a", " ">>

\* the long form on every row, the first included
label_text_full(r) ==
    Nota_ \o fnum(r.Nota) \o <<" ", "(", "Delta", " ">> \o fsgn(r.Delta)
        \o <<";", " ">> \o fsgn(r.Delta_pct) \o <<"%", ")">>

\* lines 94-98
label_text(r) ==
    IF isna(r.Nota_anterior)
    THEN Nota_ \o fnum(r.Nota)
    ELSE Nota_ \o fnum(r.Nota) \o <<" ", "(", "Delta", " ">> \o fsgn(r.Delta)
            \o <<";", " ">> \o fsgn(r.Delta_pct) \o <<"%", ")">>

\* lines 101-106
hover_text(r) ==
    <<"<", "b", ">">> \o r.Avaliacao \o <<"<", "/", "b", ">">>
        \o <<"<", "b", "r", ">", "N", "o", "t", "a", ":", " ">> \o fnum(r.Nota)
        \o <<"<", "b", "r", ">", "V", "a", "r", "i", "a", "cedil", "atilde", "o", " ",
             "A", "b", "s", "o", "l", "u", "t", "a", ":", " ">> \o fsgn(r.Delta)
        \o <<"<", "b", "r", ">", "V", "a", "r", "i", "a", "cedil", "atilde", "o", " ",
             "P", "e", "r", "c", "e", "n", "t", "u", "a", "l", ":", " ">>
        \o fsgn(r.Delta_pct) \o <<"%">>

\* every order of the elements of a sequence
RECURSIVE Orders(_)
Orders(q) ==
    IF q = <<>> THEN {<<>>}
    ELSE UNION {{<<q[i]>> \o o :
                    o \in Orders(SubSeq(q, 1, i - 1) \o SubSeq(q, i + 1, Len(q)))} :
                i \in 1..Len(q)}

\* line 83, sort_values("Avaliacao"): by category code; the default sort is
\* not stable, so rows of one category may come out in any order
RECURSIVE sort_values(_, _, _)
sort_values(rows, categories, from) ==
    IF from > Len(categories) THEN {<<>>}
    ELSE {o \o rest :
            o \in Orders(SelectSeq(rows, LAMBDA r : cat_code(categories, r.Avaliacao) = from)),
            rest \in sort_values(rows, categories, from + 1)}

\* line 86: Series.shift(1)
shift1(sorted, i) == IF i = 1 THEN NaN ELSE sorted[i - 1].Nota

\* the ratio left as a fraction, not multiplied by 100
delta_pct_ratio(delta, anterior) == FDiv(delta, anterior)

\* line 88
delta_pct(delta, anterior) == FMulInt(FDiv(delta, anterior), 100)

\* lines 86-107 on the sorted rows of the group
with_metrics(sorted) ==
    [i \in 1..Len(sorted) |->
        LET anterior == shift1(sorted, i)
            delta == FSub(sorted[i].Nota, anterior)
            r == [Regional |-> sorted[i].Regional, Avaliacao |-> sorted[i].Avaliacao,
                  Nota |-> sorted[i].Nota, Nota_anterior |-> anterior, Delta |-> delta,
                  Delta_pct |-> delta_pct(delta, anterior)]
        IN [Regional |-> r.Regional, Avaliacao |-> r.Avaliacao, Nota |-> r.Nota,
            Nota_anterior |-> r.Nota_anterior, Delta |-> r.Delta, Delta_pct |-> r.Delta_pct,
            label_text |-> label_text(r), hover_text |-> hover_text(r)]]

\* the tables montar_base may return
montar_base(long, reg) ==
    {with_metrics(o) :
        o \in sort_values(SelectSeq(long.rows, LAMBDA r : r.Regional = reg), long.categories, 1)}

(* --------------------------- parser inputs ----------------------------- *)
Alphabet == {"1", "5", ",", ".", " ", "R", "$", "%", "a", "-"}

RECURSIVE TextsOfLen(_)
TextsOfLen(k) ==
    IF k = 0 THEN {<<>>}
    ELSE {<<c>> \o t : c \in Alphabet, t \in TextsOfLen(k - 1)}

Texts == UNION {TextsOfLen(k) : k \in 0..MaxLen}

Examples ==
    { <<"1", ".", "2", "3", "4", ",", "5", "6">>,
      <<"1", ",", "2", "3", "4", ".", "5", "6">>,
      <<"1", ".", "2", "3", "4">>,
      <<"4", "5", "2", ",", "7", "4">>,
      <<"a", "b", "c">>,
      <<"R", "$", "nbsp", "1", ".", "2", "3", "4", ",", "5", "0">>,
      <<"9", "5", "%">> }

ParseInputs ==
    {NoneCell, NumCell(NaN), NumCell(Dec(45274, 2)), NumCell(Dec(7, 0))}
        \cup {StrCell(t) : t \in Texts \cup Examples}

Idle == [t |-> "idle"]

\* a sheet of two groups with the cell under test in both an all-text and a
\* mixed column
CellSheet(c) ==
    Sheet(<<Regional, <<"R", "1">>, <<"R", "2">>>>,
          << [label |-> <<"N", "o", "r", "t", "e">>,
              cells |-> <<c, StrCell(<<"4", "5", "2", ",", "7", "4">>)>>],
             [label |-> <<"S", "u", "l">>,
              cells |-> <<NumCell(Dec(10, 0)), c>>] >>)

InitParse ==
    /\ pc = "parse"
    /\ x \in ParseInputs
    /\ s = <<>>
    /\ ret = NaN
    /\ df = CellSheet(x)
    /\ df_long = Idle /\ regional = <<>> /\ base = Idle
    /\ exists_ = FALSE /\ abas = Idle /\ session = Idle /\ ui = Idle

Parse ==
    /\ pc = "parse"
    /\ s' = parse_s(x)
    /\ ret' = parse_br_number(x)
    /\ pc' = "parsed"
    /\ UNCHANGED <<x, df, df_long, regional, base, exists_, abas, session, ui>>

\* df_long = preparar_df(df_sheet), line 157
Prepare ==
    /\ pc \in {"parsed", "sheet"}
    /\ df_long' = preparar_df(df)
    /\ df' = preparar_df_arg(df)
    /\ pc' = IF df_long'.t = "raise" THEN "raised" ELSE "long"
    /\ UNCHANGED <<x, s, ret, regional, base, exists_, abas, session, ui>>

NextParse == Parse \/ Prepare

SpecParse == InitParse /\ [][NextParse]_vars

(* --------------------------- sheets as input --------------------------- *)
MaxRows == 2

Norte == <<"N", "o", "r", "t", "e">>
Sul == <<"S", "u", "l">>
Presenca == <<"P", "r", "e", "s", "e", "n", "cedil", "a">>
PRESENCA == <<"P", "R", "E", "S", "E", "N", "CEDIL", "A">>
Labels == {Norte, Sul, Presenca, PRESENCA}

R1 == <<"R", "1">>
R2 == <<"R", "2">>
R10 == <<"R", "1", "0">>
CategoryLists == {<<R10, R2, R1>>, <<R1, R2>>}
FirstColumns == {Regional, <<"U", "n", "n", "a", "m", "e", "d", ":", " ", "0">>}

Cells ==
    { NoneCell, NumCell(Dec(0, 0)), NumCell(Dec(5, 0)), NumCell(Dec(10, 0)),
      NumCell(Dec(12, 0)), NumCell(Dec(9, 0)), NumCell(Dec(-25, 1)),
      StrCell(<<"2", ",", "5">>), StrCell(<<"a", "b", "c">>) }

RowPatterns ==
    { <<NumCell(Dec(10, 0)), NumCell(Dec(12, 0)), NumCell(Dec(9, 0))>>,
      <<StrCell(<<"0">>), StrCell(<<"5", ",", "0">>), NoneCell>>,
      <<StrCell(<<"9", "5", "%">>), StrCell(<<"9", "0", "%">>), NoneCell>> }

RECURSIVE SeqsUpTo(_, _)
SeqsUpTo(S, k) ==
    IF k = 0 THEN {<<>>}
    ELSE LET shorter == SeqsUpTo(S, k - 1)
         IN shorter \cup {Append(q, e) : q \in {r \in shorter : Len(r) = k - 1}, e \in S}

RECURSIVE SeqsOfLen(_, _)
SeqsOfLen(S, k) ==
    IF k = 0 THEN {<<>>} ELSE {Append(q, e) : q \in SeqsOfLen(S, k - 1), e \in S}

\* Sheets have a text in every cell of the first column and at least one
\* category column. Up to MaxRows rows, any label on each, cells from the row
\* patterns
LabelSheets(first, cats) ==
    {Sheet(<<first>> \o cats, rows) :
        rows \in SeqsUpTo({[label |-> l, cells |-> SubSeq(p, 1, Len(cats))] :
                              l \in Labels, p \in RowPatterns}, MaxRows)}

\* one group, any cell in each category
ValueSheets(first, cats) ==
    {Sheet(<<first>> \o cats, <<[label |-> Norte, cells |-> c]>>) :
        c \in SeqsOfLen(Cells, Len(cats))}

Sheets ==
    UNION {LabelSheets(f, c) \cup ValueSheets(f, c) : f \in FirstColumns, c \in CategoryLists}

\* line 159: the distinct labels of the long table
regionais(long) == {long.rows[i].Regional : i \in 1..Len(long.rows)}

InitMetrics ==
    /\ pc = "sheet"
    /\ df \in Sheets
    /\ df_long = Idle /\ regional = <<>> /\ base = Idle
    /\ x = NoneCell /\ s = <<>> /\ ret = NaN
    /\ exists_ = FALSE /\ abas = Idle /\ session = Idle /\ ui = Idle

\* lines 160-167: a group is picked and base = montar_base(df_long, regional)
Montar ==
    /\ pc = "long"
    /\ \E g \in regionais(df_long) :
        /\ regional' = g
        /\ base' \in montar_base(df_long, g)
    /\ pc' = "base"
    /\ UNCHANGED <<x, s, ret, df, df_long, exists_, abas, session, ui>>

NextMetrics == Prepare \/ Montar

SpecMetrics == InitMetrics /\ [][NextMetrics]_vars

(* -------------------------------- main --------------------------------- *)
\* line 10: EXCEL_PATH is bound to a str
EXCEL_PATH == [type |-> "str", name |-> "Comparativo_MG.xlsx"]

\* attribute lookup of "exists" (line 133): pathlib.Path has it, str has not
has_exists(obj) == obj.type = "Path"

\* sorted(S)[0]
first_sorted(S) == CHOOSE m \in S : \A o \in S : o = m \/ TextLess(m, o)

NoChart == [x |-> <<>>, y |-> <<>>, text |-> <<>>, hovertext |-> <<>>]

\* lines 110-129: what the figure plots
grafico(b) ==
    [x |-> [i \in 1..Len(b) |-> b[i].Avaliacao],
     y |-> [i \in 1..Len(b) |-> b[i].Nota],
     text |-> [i \in 1..Len(b) |-> b[i].label_text],
     hovertext |-> [i \in 1..Len(b) |-> b[i].hover_text]]

Page(kind, detail, tabs, aba, options, reg, chart) ==
    [kind |-> kind, detail |-> detail, tabs |-> tabs, aba_sel |-> aba,
     options |-> options, regional |-> reg, chart |-> chart]

Unset == <<"unset">>     \* no group chosen
NoTab == ""              \* no sheet chosen
NoSession == [aba_radio |-> NoTab, reg |-> <<Unset, Unset>>]

tab_index(book, name) == CHOOSE i \in 1..Len(book) : book[i].name = name

\* lines 144-169 for a loaded workbook: the pages the run may end on
render(book, sess) ==
    LET tab_names == [i \in 1..Len(book) |-> book[i].name]
        aba_sel == IF \E i \in 1..Len(book) : book[i].name = sess.aba_radio
                   THEN sess.aba_radio ELSE tab_names[1]
        k == tab_index(book, aba_sel)
        df_sheet == book[k].sheet                       \* abas[aba_sel].copy()
        long == preparar_df(df_sheet)
    IN IF long.t = "raise"
       THEN {Page("exception", <<long.exc>>, tab_names, aba_sel, {}, Unset, NoChart)}
       ELSE LET options == regionais(long)
                reg == IF sess.reg[k] \in options THEN sess.reg[k]
                       ELSE IF options = {} THEN Unset ELSE first_sorted(options)
            IN {Page("page", <<>>, tab_names, aba_sel, options, reg, grafico(b)) :
                    b \in montar_base(long, reg)}

\* one run of the script, top to bottom
script(path, there, book, sess) ==
    IF ~has_exists(path)
    THEN {Page("exception", <<"AttributeError">>, <<>>, NoTab, {}, Unset, NoChart)}  \* line 133
    ELSE IF ~there
    THEN {Page("stopped", <<"Arquivo nao encontrado: ", path.name, ".">>,         \* 134-135
               <<>>, NoTab, {}, Unset, NoChart)}
    ELSE render(book, sess)

MainSheets == ValueSheets(Regional, <<R1, R2>>) \cup LabelSheets(Regional, <<R1, R2>>)

OneSheet == CHOOSE sh \in LabelSheets(Regional, <<R1, R2>>) : Len(sh.rows) = 1

Workbooks ==
    {<<[name |-> "2023", sheet |-> a]>> : a \in MainSheets}
        \cup {<<[name |-> "2023", sheet |-> OneSheet], [name |-> "2024", sheet |-> b]>> :
                b \in ValueSheets(Regional, <<R1, R2>>)}

InitMain ==
    /\ pc = "start"
    /\ exists_ \in BOOLEAN
    /\ abas \in IF exists_ THEN Workbooks ELSE {Idle}
    /\ session = NoSession
    /\ ui = Page("idle", <<>>, <<>>, NoTab, {}, Unset, NoChart)
    /\ x = NoneCell /\ s = <<>> /\ ret = NaN
    /\ df = Idle /\ df_long = Idle /\ regional = <<>> /\ base = Idle

\* Streamlit executes the script; the page is what the run left on it
Run ==
    /\ pc = "start"
    /\ ui' \in script(EXCEL_PATH, exists_, abas, session)
    /\ pc' = "shown"
    /\ UNCHANGED <<x, s, ret, df, df_long, regional, base, exists_, abas, session>>

\* the widget values the user can produce from the page shown
selections(page, sess) ==
    {sess}
        \cup {[sess EXCEPT !.aba_radio = page.tabs[i]] :
                i \in IF page.kind = "page" THEN 1..Len(page.tabs) ELSE {}}
        \cup {[sess EXCEPT !.reg[tab_index(abas, page.aba_sel)] = g] :
                g \in IF page.kind = "page" THEN page.options ELSE {}}

\* the user asks for a rerun, by a widget of the page or by the Rerun command
Interact ==
    /\ pc = "shown"
    /\ session' \in selections(ui, session)
    /\ pc' = "start"
    /\ UNCHANGED <<x, s, ret, df, df_long, regional, base, exists_, abas, ui>>

NextMain == Run \/ Interact

SpecMain == InitMain /\ [][NextMain]_vars

(* ------------------- properties of parse_br_number --------------------- *)
Ex_1p234c56 == <<"1", ".", "2", "3", "4", ",", "5", "6">>
Ex_1c234p56 == <<"1", ",", "2", "3", "4", ".", "5", "6">>
Ex_1p234 == <<"1", ".", "2", "3", "4">>
Ex_452c74 == <<"4", "5", "2", ",", "7", "4">>

\* 1-based place of the last c in t, 0 when there is none
LastPlace(t, c) ==
    IF \E i \in 1..Len(t) : t[i] = c
    THEN CHOOSE i \in 1..Len(t) : t[i] = c /\ \A j \in (i + 1)..Len(t) : t[j] # c
    ELSE 0

\* t without every character in drop, and with every "," written "."
Rewritten(t, drop) ==
    LET keep == SelectSeq(t, LAMBDA c : c \notin drop)
    IN [i \in 1..Len(keep) |-> IF keep[i] = "," THEN "." ELSE keep[i]]

Markers == Whitespace \cup {"R", "$", "%"}
Parsed == pc # "parse" /\ x.t = "str"

\* C3: a text with both "," and "." is parsed with the separator that occurs
\* last as the decimal point and every occurrence of the other one removed;
\* "1.234,56" and "1,234.56" both give 1234.56.
C3_LaterSeparatorIsDecimal ==
    (Parsed /\ Contains(x.s, ",") /\ Contains(x.s, ".")) =>
        LET other == IF LastPlace(x.s, ",") > LastPlace(x.s, ".") THEN "." ELSE ","
        IN /\ Rewritten(s, Markers) = Rewritten(x.s, Markers \cup {other})
           /\ x.s = Ex_1p234c56 => ret = Dec(123456, 2)
           /\ x.s = Ex_1c234p56 => ret = Dec(123456, 2)

C3_Witness ==
    /\ pc = "parsed" /\ x = StrCell(Ex_1c234p56)
    /\ s = <<"1", "2", "3", "4", ".", "5", "6">> /\ ret = Dec(123456, 2)

\* C4: in a text without "," every "." stays and is the decimal point, never
\* thousands grouping ("1.234" is 1.234, not 1234); in a text with "," and no
\* "." the "," becomes the decimal point ("452,74" is 452.74).
C4_DotOnlyIsDecimal ==
    /\ (Parsed /\ ~Contains(x.s, ",")) =>
            /\ Rewritten(s, Markers) = Rewritten(x.s, Markers)
            /\ x.s = Ex_1p234 => ret = Dec(1234, 3) /\ ret # Dec(1234, 0)
            /\ x.s = <<"1", ".", "5">> => ret = Dec(15, 1)
    /\ (Parsed /\ Contains(x.s, ",") /\ ~Contains(x.s, ".")) =>
            /\ ~Contains(s, ",")
            /\ Rewritten(s, Markers) = Rewritten(x.s, Markers)
            /\ x.s = Ex_452c74 => ret = Dec(45274, 2)
            /\ x.s = <<"1", ",", "5">> => ret = Dec(15, 1)

C4_Witness ==
    /\ pc = "parsed" /\ x = StrCell(Ex_1p234)
    /\ s = Ex_1p234 /\ ret = Dec(1234, 3)

\* texts that spell no number: empty or only whitespace and markers, without
\* any digit, or with a letter
NoNumber(t) ==
    \/ \A i \in 1..Len(t) : t[i] \in Markers
    \/ ~\E i \in 1..Len(t) : t[i] \in DigitSet
    \/ \E i \in 1..Len(t) : t[i] \in {"a", "b", "c"}

\* C5: parse_br_number returns a float for every raw cell and never raises;
\* None, the empty text, whitespace and text that forms no number give the
\* missing marker; in a sheet the cell that cannot be parsed is missing and
\* every other cell keeps its own value.
C5_ParseIsTotal ==
    /\ pc # "parse" =>
            /\ ret.k \in {"num", "nan"}
            /\ x.t = "none" => isna(ret)
            /\ (x.t = "str" /\ NoNumber(x.s)) => isna(ret)
            /\ x.t = "num" => ret = x.v
    /\ pc = "long" =>
            /\ df_long.t = "frame"
            /\ Len(df_long.rows) = 4
            /\ df_long.rows[1].Nota = ret
            /\ df_long.rows[2].Nota = Dec(10, 0)
            /\ df_long.rows[3].Nota = Dec(45274, 2)
            /\ df_long.rows[4].Nota = ret

C5_Witness ==
    /\ pc = "long" /\ x = StrCell(<<"a", "b", "c">>)
    /\ isna(df_long.rows[1].Nota) /\ df_long.rows[3].Nota = Dec(45274, 2)

(* ---------------- properties of preparar_df and montar_base ------------ *)
Zero == Dec(0, 0)
Emdash == <<"emdash">>

\* the text "Nota v (Delta d; p%)" from the three texts
LongLabel(v, d, p) ==
    <<"N", "o", "t", "a", " ">> \o v \o <<" ", "(", "Delta", " ">> \o d
        \o <<";", " ">> \o p \o <<"%", ")">>
ShortLabel(v) == <<"N", "o", "t", "a", " ">> \o v

\* a float written with two decimals, or the em-dash when it is missing
Token(v, plus) == IF isna(v) THEN Emdash ELSE fmt2f(v, plus)

\* C1: after a value of 0, a defined value v has Delta = v, a missing
\* DeltaPct and a Label whose percentage term alone is the em-dash.
C1_ZeroPredecessor ==
    pc = "base" =>
        \A i \in 2..Len(base) :
            (base[i].Nota_anterior = Zero /\ ~isna(base[i].Nota)) =>
                /\ base[i].Delta = base[i].Nota
                /\ isna(base[i].Delta_pct)
                /\ base[i].label_text =
                        LongLabel(Token(base[i].Nota, FALSE), Token(base[i].Delta, TRUE), Emdash)

\* d = v - p, and q = 100 * d / p, on fractions
IsDifference(d, v, p) ==
    d.k = "num" /\ d.n * v.d * p.d = d.d * (v.n * p.d - p.n * v.d)
IsPercentage(q, d, p) ==
    q.k = "num" /\ q.n * d.d * p.n = q.d * 100 * d.n * p.d

PlaceIn(q, c) == CHOOSE i \in 1..Len(q) : q[i] = c

Notas(b) == [i \in 1..Len(b) |-> b[i].Nota]

\* C6: montar_base returns the rows of the group in category order, each with
\* the value of the row before it as PreviousValue (missing on the first),
\* Delta = Value - PreviousValue when both are defined and missing otherwise,
\* and DeltaPct = 100 * Delta / PreviousValue when PreviousValue is defined
\* and not zero, missing when an operand is missing; 10, 12, 9 give
\* PreviousValue -, 10, 12, Delta -, 2, -3 and DeltaPct -, 20, -25.
C6_Metrics ==
    pc = "base" =>
        /\ Len(base) = Cardinality({i \in 1..Len(df_long.rows) :
                                        df_long.rows[i].Regional = regional})
        /\ \A i \in 1..Len(base) :
            LET v == base[i].Nota
                p == base[i].Nota_anterior
                d == base[i].Delta
                q == base[i].Delta_pct
            IN /\ base[i].Regional = regional
               /\ \A j \in 1..(i - 1) :
                    PlaceIn(df_long.categories, base[j].Avaliacao)
                        <= PlaceIn(df_long.categories, base[i].Avaliacao)
               /\ p = IF i = 1 THEN NaN ELSE base[i - 1].Nota
               /\ \A r \in {v, p, d, q} : r.k \in {"num", "nan", "inf"}
               /\ IF isna(v) \/ isna(p) THEN isna(d) /\ isna(q)
                  ELSE /\ IsDifference(d, v, p)
                       /\ p # Zero => IsPercentage(q, d, p)
        /\ Notas(base) = <<Dec(10, 0), Dec(12, 0), Dec(9, 0)>> =>
            /\ [i \in 1..3 |-> base[i].Nota_anterior] = <<NaN, Dec(10, 0), Dec(12, 0)>>
            /\ [i \in 1..3 |-> base[i].Delta] = <<NaN, Dec(2, 0), Dec(-3, 0)>>
            /\ [i \in 1..3 |-> base[i].Delta_pct] = <<NaN, Dec(20, 0), Dec(-25, 0)>>

C6_Witness ==
    /\ pc = "base"
    /\ Notas(base) = <<Dec(10, 0), Dec(12, 0), Dec(9, 0)>>
    /\ base[2].Delta_pct = Dec(20, 0) /\ base[3].Delta_pct = Dec(-25, 0)

\* C7 as claimed: the first row of the group is labelled "Nota v" and every
\* later row "Nota v (Delta d; p%)", a missing v, d or p written as the
\* em-dash.
C7_LabelByPosition ==
    pc = "base" =>
        \A i \in 1..Len(base) :
            base[i].label_text =
                IF i = 1 THEN ShortLabel(Token(base[i].Nota, FALSE))
                ELSE LongLabel(Token(base[i].Nota, FALSE), Token(base[i].Delta, TRUE),
                               Token(base[i].Delta_pct, TRUE))

\* C7 as amended: a row whose PreviousValue is missing (the first row, and a
\* later row whose predecessor has no value) is labelled "Nota v"; every
\* other row "Nota v (Delta d; p%)", a missing v, d or p written as the
\* em-dash; 10, 12 give "Nota 10.00" and "Nota 12.00 (Delta +2.00; +20.00%)".
C7_LabelByPrevious ==
    pc = "base" =>
        /\ \A i \in 1..Len(base) :
            base[i].label_text =
                IF isna(base[i].Nota_anterior) THEN ShortLabel(Token(base[i].Nota, FALSE))
                ELSE LongLabel(Token(base[i].Nota, FALSE), Token(base[i].Delta, TRUE),
                               Token(base[i].Delta_pct, TRUE))
        /\ (Len(base) >= 2 /\ base[1].Nota = Dec(10, 0) /\ base[2].Nota = Dec(12, 0)) =>
            /\ base[1].label_text = <<"N", "o", "t", "a", " ", "1", "0", ".", "0", "0">>
            /\ base[2].label_text =
                    <<"N", "o", "t", "a", " ", "1", "2", ".", "0", "0", " ", "(", "Delta", " ",
                      "+", "2", ".", "0", "0", ";", " ", "+", "2", "0", ".", "0", "0", "%", ")">>

C7_Witness ==
    /\ pc = "base" /\ Len(base) >= 3
    /\ isna(base[2].Nota) /\ base[3].Nota = Dec(5, 0)
    /\ base[3].label_text = <<"N", "o", "t", "a", " ", "5", ".", "0", "0">>

PresenceLabels == {Presenca, PRESENCA}

\* C8: preparar_df drops the last row of the sheet exactly when its label
\* contains "presen" in any letter case, and no other row: the long table has
\* (rows - 1) * categories rows, none of them of the dropped row, and
\* rows * categories rows when the last row is no presence row.
C8_PresenceRowDropped ==
    (pc \in {"long", "base"}) =>
        LET n == Len(df.rows)
            k == Len(df.columns) - 1
            drop == df.rows[n].label \in PresenceLabels
            m == IF drop THEN n - 1 ELSE n
        IN /\ Len(df_long.rows) = m * k
           /\ \A i \in 1..(m * k) : df_long.rows[i].Regional = df.rows[((i - 1) % m) + 1].label
           /\ (drop /\ \A i \in 1..(n - 1) : df.rows[i].label \notin PresenceLabels) =>
                \A i \in 1..(m * k) : df_long.rows[i].Regional \notin PresenceLabels

C8_Witness ==
    /\ pc = "long" /\ Len(df.rows) = 2 /\ Len(df.columns) = 4
    /\ df.rows[1].label = Norte /\ df.rows[2].label = PRESENCA
    /\ Len(df_long.rows) = 3

\* C9: the categories of the long table are the category columns of the sheet
\* left to right, and montar_base returns the rows of the group, and takes
\* each PreviousValue, in that order, not in the order of the labels as text:
\* R10, R2, R1 stay R10, R2, R1.
C9_ColumnOrder ==
    /\ (pc \in {"long", "base"}) =>
            /\ df_long.categories = Tail(df.columns)
            /\ \A i \in 1..Len(df_long.rows) : \A j \in 1..(i - 1) :
                    PlaceIn(Tail(df.columns), df_long.rows[j].Avaliacao)
                        <= PlaceIn(Tail(df.columns), df_long.rows[i].Avaliacao)
    /\ pc = "base" =>
            /\ \A i \in 1..Len(base) : \A j \in 1..(i - 1) :
                    PlaceIn(Tail(df.columns), base[j].Avaliacao)
                        <= PlaceIn(Tail(df.columns), base[i].Avaliacao)
            /\ {base[i].Avaliacao : i \in 1..Len(base)} = {df.columns[j] : j \in 2..Len(df.columns)}
            /\ \A i \in 2..Len(base) : base[i].Nota_anterior = base[i - 1].Nota
            /\ (Tail(df.columns) = <<R10, R2, R1>> /\ Len(base) = 3) =>
                    [i \in 1..3 |-> base[i].Avaliacao] = <<R10, R2, R1>>

C9_Witness ==
    /\ pc = "base" /\ Tail(df.columns) = <<R10, R2, R1>>
    /\ [i \in 1..Len(base) |-> base[i].Avaliacao] = <<R10, R2, R1>>
    /\ Notas(base) = <<Dec(10, 0), Dec(12, 0), Dec(9, 0)>>
    /\ base[3].Nota_anterior = Dec(12, 0)

(* ----------------------- properties of the script ---------------------- *)
\* C2: with no file at EXCEL_PATH the run shows an error that names the file
\* and stops: the existence check does not fail, no sheet is loaded and no
\* chart is drawn.
C2_MissingFileReported ==
    (pc = "shown" /\ ~exists_) =>
        /\ ui.kind = "stopped"
        /\ ui.detail = <<"Arquivo nao encontrado: ", "Comparativo_MG.xlsx", ".">>
        /\ ui.tabs = <<>>
        /\ ui.chart = NoChart

\* C10: after any sequence of selections the chart on the page is the chart
\* of the sheet and group now selected, computed from the sheet as loaded.
C10_ChartOfSelection ==
    (pc = "shown" /\ exists_ /\ \A i \in 1..Len(abas) : Len(abas[i].sheet.rows) > 0) =>
        /\ ui.kind = "page"
        /\ ui.aba_sel \in {abas[i].name : i \in 1..Len(abas)}
        /\ LET long == preparar_df(abas[tab_index(abas, ui.aba_sel)].sheet)
           IN /\ ui.regional \in regionais(long) \cup {Unset}
              /\ \E b \in montar_base(long, ui.regional) : ui.chart = grafico(b)
====
